---- MODULE Spec2Model ----
(***************************************************************************)
(* Package tai: the leap-second table (leaps), its three operations        *)
(* (skewUnix, RegisterLeapSecond, RemoveLeapSecond) and the sync.RWMutex   *)
(* (leaplock) that guards it.                                              *)
(*                                                                         *)
(* Go slices are 0-based, TLA+ sequences 1-based: the Go expression        *)
(* leaps[i] is written tbl[i + 1] below, and every loop keeps the Go       *)
(* index i.                                                                *)
(***************************************************************************)
EXTENDS Integers, Sequences, FiniteSets, TLC

VARIABLES leaps, last, pc, kind, wholder, readerCount, pending, held

vars == <<leaps, last, pc, kind, wholder, readerCount, pending, held>>

(***************************************************************************)
(* Bounds of the model.                                                    *)
(***************************************************************************)
\* number of instants later than the whole seed that callers may register
MaxExtra == 2
\* number of concurrent callers (goroutines)
NProcs == 3

(***************************************************************************)
(* The table.                                                              *)
(***************************************************************************)
leap(u, c) == [UnixUTC |-> u, CumulativeSkew |-> c]

SeedLeaps ==
    << leap(63100800, 10),  leap(78735600, 11),  leap(94636800, 12),
       leap(126172800, 13), leap(157708800, 14), leap(189244800, 15),
       leap(220867200, 16), leap(252403200, 17), leap(283939200, 18),
       leap(315475200, 19), leap(362732400, 20), leap(394268400, 21),
       leap(425804400, 22), leap(488962800, 23), leap(567936000, 24),
       leap(631094400, 25), leap(662630400, 26), leap(709887600, 27),
       leap(741423600, 28), leap(772959600, 29), leap(820396800, 30),
       leap(867654000, 31), leap(915091200, 32), leap(1136016000, 33),
       leap(1230710400, 34), leap(1341039600, 35), leap(1435647600, 36),
       leap(1483171200, 37) >>

minLeaps == Len(SeedLeaps)

\* append(slc[:index+1], slc[index:]...) ; slc[index] = value
insertLeapFront(slc, index, value) == <<value>> \o slc

insertLeap(slc, index, value) ==
    IF Len(slc) = index
    THEN Append(slc, value)
    ELSE SubSeq(slc, 1, index) \o <<value>> \o SubSeq(slc, index + 1, Len(slc))

\* append(slc[:index], slc[index+1:]...)
removeLeapBefore(slc, index) ==
    SubSeq(slc, 1, index - 1) \o SubSeq(slc, index + 1, Len(slc))

removeLeap(slc, index) ==
    SubSeq(slc, 1, index) \o SubSeq(slc, index + 2, Len(slc))

(***************************************************************************)
(* RegisterLeapSecond: the loop "for i := start; i > 0; i++".  Reading     *)
(* leaps[i] with i >= len(leaps) is a runtime panic (index out of range).  *)
(***************************************************************************)
RECURSIVE RegisterLoop(_, _, _, _)
RegisterLoop(tbl, i, unixUTC, cumulativeSkew) ==
    IF ~(i > 0)
    THEN [leaps |-> tbl, res |-> "errFloor"]
    ELSE IF i >= Len(tbl)
    THEN [leaps |-> tbl, res |-> "panic"]
    ELSE LET l == tbl[i + 1] IN
         IF unixUTC > l.UnixUTC
         THEN [leaps |-> insertLeap(tbl, i + 1, leap(unixUTC, cumulativeSkew)),
               res |-> "nil"]
         ELSE IF unixUTC = l.UnixUTC /\ cumulativeSkew # l.CumulativeSkew
         THEN [leaps |-> tbl, res |-> "errDuplicate"]
         ELSE RegisterLoop(tbl, i + 1, unixUTC, cumulativeSkew)

RegisterLeapSecond(tbl, unixUTC, cumulativeSkew) ==
    LET start == Len(tbl) - 1
    IN  RegisterLoop(tbl, start, unixUTC, cumulativeSkew)

(***************************************************************************)
(* RemoveLeapSecond: the loop "for i := start; i > 0; i--"; start is read  *)
(* once, before the loop.                                                  *)
(***************************************************************************)
RECURSIVE RemoveLoop(_, _, _, _)
RemoveLoop(tbl, i, start, unixUTC) ==
    IF ~(i > 0)
    THEN [leaps |-> tbl, res |-> "ok"]
    ELSE IF unixUTC = tbl[i + 1].UnixUTC
    THEN IF start < minLeaps
         THEN [leaps |-> tbl, res |-> "panic"]
         ELSE RemoveLoop(removeLeap(tbl, i), i - 1, start, unixUTC)
    ELSE RemoveLoop(tbl, i - 1, start, unixUTC)

RemoveLeapSecond(tbl, unixUTC) ==
    LET start == Len(tbl) - 1
    IN  RemoveLoop(tbl, start, start, unixUTC)

(***************************************************************************)
(* skewUnix: the loop "for i := len(leaps) - 1; i > 0; i--".               *)
(***************************************************************************)
RECURSIVE skewLoop(_, _, _)
skewLoop(tbl, i, s) ==
    IF ~(i > 0)
    THEN 0
    ELSE LET l == tbl[i + 1] IN
         IF s > l.UnixUTC THEN l.CumulativeSkew ELSE skewLoop(tbl, i - 1, s)

skewUnix(tbl, s) == skewLoop(tbl, Len(tbl) - 1, s)

(***************************************************************************)
(* Inputs.                                                                 *)
(***************************************************************************)
Instants(tbl) == { tbl[k].UnixUTC : k \in 1..Len(tbl) }

SeedInstants == Instants(SeedLeaps)

LastSeed == SeedLeaps[minLeaps]

\* instants later than every seeded entry, one day apart
FutureInstants == { LastSeed.UnixUTC + k * 86400 : k \in 1..MaxExtra }

\* first, second, a middle and the last seeded instant; one instant before
\* the first entry, one between the first and the second; the later ones
InstantInputs ==
    { SeedLeaps[1].UnixUTC - 1, SeedLeaps[1].UnixUTC, SeedLeaps[1].UnixUTC + 1,
      SeedLeaps[2].UnixUTC, SeedLeaps[minLeaps \div 2].UnixUTC,
      LastSeed.UnixUTC } \cup FutureInstants

QueryInputs == UNION { {u - 1, u, u + 1} : u \in InstantInputs }

\* "skew need not be 1 and need not be positive"
SkewInputs == { LastSeed.CumulativeSkew - 1, LastSeed.CumulativeSkew + 1 }

\* the skews tried for instant u: the inputs, and the skew the table holds
SkewsFor(tbl, u) ==
    SkewInputs \cup { tbl[k].CumulativeSkew : k \in { j \in 1..Len(tbl) : tbl[j].UnixUTC = u } }

Procs == 1..NProcs

\* no TAI value held by a caller between two conversions
NoHeld == <<>>

NoCall ==
    [op |-> "none", u |-> 0, c |-> 0, res |-> "none", ret |-> 0,
     before |-> <<>>, follows |-> FALSE, base |-> <<>>]

Init ==
    /\ leaps = SeedLeaps
    /\ last = NoCall
    /\ pc = [p \in Procs |-> "idle"]
    /\ kind = [p \in Procs |-> "none"]
    /\ wholder = 0
    /\ readerCount = 0
    /\ pending = [p \in Procs |-> <<>>]
    /\ held = NoHeld

(***************************************************************************)
(* One caller at a time: each action is a whole call, lock to unlock.      *)
(* last records the call: its arguments, its outcome and the table it      *)
(* found; follows/base record that a removal comes right after the         *)
(* registration of the same instant at the end of the table, and the       *)
(* table before that registration.                                         *)
(***************************************************************************)
Latest(tbl, u) == \A k \in 1..Len(tbl) : u > tbl[k].UnixUTC

CallSkewUnix ==
    \E s \in QueryInputs :
        /\ last' = [NoCall EXCEPT !.op = "skewUnix", !.u = s, !.res = "value",
                                  !.ret = skewUnix(leaps, s), !.before = leaps]
        /\ UNCHANGED <<leaps, pc, kind, wholder, readerCount, pending, held>>

CallRegister ==
    \E u \in InstantInputs :
      \E c \in SkewsFor(leaps, u) :
        LET r == RegisterLeapSecond(leaps, u, c) IN
        /\ leaps' = r.leaps
        /\ last' = [NoCall EXCEPT !.op = "register", !.u = u, !.c = c,
                                  !.res = r.res, !.before = leaps]
        /\ UNCHANGED <<pc, kind, wholder, readerCount, pending, held>>

CallRemove ==
    \E u \in InstantInputs :
        LET r == RemoveLeapSecond(leaps, u)
            f == /\ last.op = "register"
                 /\ last.u = u
                 /\ Latest(last.before, u)
        IN
        /\ leaps' = r.leaps
        /\ last' = [NoCall EXCEPT !.op = "remove", !.u = u, !.res = r.res,
                                  !.before = leaps, !.follows = f,
                                  !.base = IF f THEN last.before ELSE <<>>]
        /\ UNCHANGED <<pc, kind, wholder, readerCount, pending, held>>

Next == CallSkewUnix \/ CallRegister \/ CallRemove

Spec == Init /\ [][Next]_vars

(***************************************************************************)
(* Concurrent callers.  leaplock is a sync.RWMutex:                        *)
(*   wholder      the caller that holds the writer side: from Lock()       *)
(*                until Unlock(); while it is set, RLock() blocks          *)
(*   readerCount  the callers that hold the read side                      *)
(* pc[p] is the caller's position, kind[p] the function it is in, and      *)
(* pending[p] the slice header removeLeap returned to p and p has not yet  *)
(* stored into leaps.  The arguments of a call are drawn where its body    *)
(* runs: nothing before the body reads them.                               *)
(***************************************************************************)
ReaderInside == {"scan", "runlock"}

WriterInside == {"body", "store", "unlock"}

Blocked == { q \in Procs : pc[q] = "rblocked" }

RWInstants == FutureInstants \cup {LastSeed.UnixUTC}

StartSkewUnix(p) ==
    /\ pc[p] = "idle"
    /\ pc' = [pc EXCEPT ![p] = "rlock"]
    /\ kind' = [kind EXCEPT ![p] = "skewUnix"]
    /\ UNCHANGED <<leaps, last, wholder, readerCount, pending, held>>

StartRegister(p) ==
    /\ pc[p] = "idle"
    /\ pc' = [pc EXCEPT ![p] = "lock"]
    /\ kind' = [kind EXCEPT ![p] = "register"]
    /\ UNCHANGED <<leaps, last, wholder, readerCount, pending, held>>

StartRemove(p) ==
    /\ pc[p] = "idle"
    /\ pc' = [pc EXCEPT ![p] = "lock"]
    /\ kind' = [kind EXCEPT ![p] = "remove"]
    /\ UNCHANGED <<leaps, last, wholder, readerCount, pending, held>>

\* a mutex in place of the read lock: one reader at a time
RLockExclusive(p) ==
    /\ pc[p] = "rlock"
    /\ IF wholder = 0 /\ readerCount = 0
       THEN /\ pc' = [pc EXCEPT ![p] = "scan"]
            /\ readerCount' = readerCount + 1
       ELSE /\ pc' = [pc EXCEPT ![p] = "rblocked"]
            /\ UNCHANGED readerCount
    /\ UNCHANGED <<leaps, last, kind, wholder, pending, held>>

\* no lock taken on the read side
RLockNone(p) ==
    /\ pc[p] = "rlock"
    /\ pc' = [pc EXCEPT ![p] = "scan"]
    /\ readerCount' = readerCount + 1
    /\ UNCHANGED <<leaps, last, kind, wholder, pending, held>>

\* leaplock.RLock(): enters unless a writer holds or waits for the lock
RLock(p) ==
    /\ pc[p] = "rlock"
    /\ IF wholder = 0
       THEN /\ pc' = [pc EXCEPT ![p] = "scan"]
            /\ readerCount' = readerCount + 1
       ELSE /\ pc' = [pc EXCEPT ![p] = "rblocked"]
            /\ UNCHANGED readerCount
    /\ UNCHANGED <<leaps, last, kind, wholder, pending, held>>

\* the scan loop of skewUnix, reading leaps under the read lock
Scan(p) ==
    /\ pc[p] = "scan"
    /\ \E s \in QueryInputs : skewUnix(leaps, s) \in Int
    /\ pc' = [pc EXCEPT ![p] = "runlock"]
    /\ UNCHANGED <<leaps, last, kind, wholder, readerCount, pending, held>>

\* defer leaplock.RUnlock()
RUnlock(p) ==
    /\ pc[p] = "runlock"
    /\ pc' = [pc EXCEPT ![p] = "idle"]
    /\ kind' = [kind EXCEPT ![p] = "none"]
    /\ readerCount' = readerCount - 1
    /\ UNCHANGED <<leaps, last, wholder, pending, held>>

\* leaplock.Lock(), first half: exclude the other writers and new readers
Lock(p) ==
    /\ pc[p] = "lock"
    /\ wholder = 0
    /\ wholder' = p
    /\ pc' = [pc EXCEPT ![p] = "lockwait"]
    /\ UNCHANGED <<leaps, last, kind, readerCount, pending, held>>

\* leaplock.Lock(), second half: wait for the readers inside to leave
LockEnter(p) ==
    /\ pc[p] = "lockwait"
    /\ wholder = p
    /\ readerCount = 0
    /\ pc' = [pc EXCEPT ![p] = "body"]
    /\ UNCHANGED <<leaps, last, kind, wholder, readerCount, pending, held>>

\* Unlock called at the returns instead of deferred: a panic leaves the
\* function with the lock held
RegisterBodyNoDefer(p) ==
    /\ pc[p] = "body"
    /\ kind[p] = "register"
    /\ \E u \in RWInstants :
         \E c \in SkewsFor(leaps, u) :
            LET r == RegisterLeapSecond(leaps, u, c) IN
            /\ leaps' = r.leaps
            /\ IF r.res = "panic"
               THEN /\ pc' = [pc EXCEPT ![p] = "idle"]
                    /\ kind' = [kind EXCEPT ![p] = "none"]
               ELSE /\ pc' = [pc EXCEPT ![p] = "unlock"]
                    /\ UNCHANGED kind
    /\ UNCHANGED <<last, wholder, readerCount, pending, held>>

\* the body of RegisterLeapSecond; a return and a panic both run the
\* deferred Unlock
RegisterBody(p) ==
    /\ pc[p] = "body"
    /\ kind[p] = "register"
    /\ \E u \in RWInstants :
         \E c \in SkewsFor(leaps, u) :
            leaps' = RegisterLeapSecond(leaps, u, c).leaps
    /\ pc' = [pc EXCEPT ![p] = "unlock"]
    /\ UNCHANGED <<last, kind, wholder, readerCount, pending, held>>

\* the body of RemoveLeapSecond up to the return of removeLeap: append has
\* moved the entries after the removed one down inside the array of leaps,
\* and leaps still has its old length
RemoveBody(p) ==
    /\ pc[p] = "body"
    /\ kind[p] = "remove"
    /\ \E u \in RWInstants :
         LET r == RemoveLeapSecond(leaps, u) IN
         IF r.leaps = leaps
         THEN /\ pc' = [pc EXCEPT ![p] = "unlock"]
              /\ UNCHANGED <<leaps, pending>>
         ELSE /\ leaps' = r.leaps \o SubSeq(leaps, Len(r.leaps) + 1, Len(leaps))
              /\ pending' = [pending EXCEPT ![p] = r.leaps]
              /\ pc' = [pc EXCEPT ![p] = "store"]
    /\ UNCHANGED <<last, kind, wholder, readerCount, held>>

\* leaps = removeLeap(leaps, i)
RemoveStore(p) ==
    /\ pc[p] = "store"
    /\ leaps' = pending[p]
    /\ pending' = [pending EXCEPT ![p] = <<>>]
    /\ pc' = [pc EXCEPT ![p] = "unlock"]
    /\ UNCHANGED <<last, kind, wholder, readerCount, held>>

\* defer leaplock.Unlock(): the readers that blocked meanwhile enter
Unlock(p) ==
    /\ pc[p] = "unlock"
    /\ wholder' = 0
    /\ pc' = [q \in Procs |-> IF q = p THEN "idle"
                              ELSE IF q \in Blocked THEN "scan" ELSE pc[q]]
    /\ readerCount' = readerCount + Cardinality(Blocked)
    /\ kind' = [kind EXCEPT ![p] = "none"]
    /\ UNCHANGED <<leaps, last, pending, held>>

NextRW ==
    \E p \in Procs :
        \/ StartSkewUnix(p)
        \/ StartRegister(p)
        \/ StartRemove(p)
        \/ RLock(p)
        \/ Scan(p)
        \/ RUnlock(p)
        \/ Lock(p)
        \/ LockEnter(p)
        \/ RegisterBody(p)
        \/ RemoveBody(p)
        \/ RemoveStore(p)
        \/ Unlock(p)

SpecRW == Init /\ [][NextRW]_vars

(***************************************************************************)
(* Properties of the table operations, stated on the record of the last    *)
(* call.                                                                   *)
(***************************************************************************)
StrictlyAscending(tbl) ==
    \A k \in 1..(Len(tbl) - 1) : tbl[k].UnixUTC < tbl[k + 1].UnixUTC

Entries(tbl) == { tbl[k] : k \in 1..Len(tbl) }

\* indices of the entries whose instant is strictly less than s
Earlier(tbl, s) == { k \in 1..Len(tbl) : tbl[k].UnixUTC < s }

MaxOf(S) == CHOOSE m \in S : \A n \in S : n <= m

\* the table with entry e put at its sorted position
SortedInsert(tbl, e) ==
    LET n == Cardinality(Earlier(tbl, e.UnixUTC))
    IN  SubSeq(tbl, 1, n) \o <<e>> \o SubSeq(tbl, n + 1, Len(tbl))

ErrorValues == {"errFloor", "errDuplicate"}

\* C1: skewUnix(s) returns the CumulativeSkew of the latest entry whose
\* UnixUTC is strictly less than s, and 0 only when no entry has UnixUTC < s.
C1_LookupLatestEarlier ==
    last.op = "skewUnix" =>
        LET E == Earlier(last.before, last.u) IN
        /\ E # {} => last.ret = last.before[MaxOf(E)].CumulativeSkew
        /\ E = {} => last.ret = 0
        /\ last.ret = 0 => E = {}

\* C2: after any sequence of RegisterLeapSecond and RemoveLeapSecond calls,
\* whatever their outcomes, the table is strictly ascending in UnixUTC.
C2_TableStrictlyAscending == StrictlyAscending(leaps)

\* C2 witness: registrations and a removal have acted, and registered
\* entries are still in the table.
C2_Witness ==
    /\ last.op = "remove"
    /\ leaps # last.before
    /\ Len(leaps) > minLeaps

\* C3: RegisterLeapSecond with the instant of an entry already in the table
\* (at any position) returns nil when the skew matches and an error when it
\* differs; it does not panic and leaves the table unchanged.
C3_DuplicateNilOrError ==
    (last.op = "register" /\ last.u \in Instants(last.before)) =>
        /\ leaps = last.before
        /\ last.res = IF leap(last.u, last.c) \in Entries(last.before)
                      THEN "nil" ELSE "errDuplicate"

\* C4: RegisterLeapSecond(u, c) with u not present, later than the earliest
\* entry and earlier than the latest, returns nil and the table then holds
\* (u, c) at its sorted position, every other entry unchanged.
C4_InsertInTheMiddle ==
    (/\ last.op = "register"
     /\ last.u \notin Instants(last.before)
     /\ last.u > last.before[1].UnixUTC
     /\ last.u < last.before[Len(last.before)].UnixUTC) =>
        /\ last.res = "nil"
        /\ leaps = SortedInsert(last.before, leap(last.u, last.c))

\* C5: RegisterLeapSecond(u, c) with u earlier than the earliest seeded
\* entry returns an error value (no panic, no insertion) and leaves the
\* table unchanged.
C5_BeforeFloorReturnsError ==
    (last.op = "register" /\ last.u < SeedLeaps[1].UnixUTC) =>
        /\ last.res \in ErrorValues
        /\ leaps = last.before

\* C6: in every reachable state RemoveLeapSecond with the instant of any
\* seeded entry (the first included) fails and leaves the table unchanged;
\* a seeded entry is never removed.
C6_SeedNeverRemoved ==
    /\ Entries(SeedLeaps) \subseteq Entries(leaps)
    /\ (last.op = "remove" /\ last.u \in SeedInstants) =>
            /\ last.res = "panic"
            /\ leaps = last.before

\* C7: the table never has fewer than minLeaps entries, and a removal that
\* would make it smaller panics without changing the table.
C7_NeverBelowMinLeaps ==
    /\ Len(leaps) >= minLeaps
    /\ (/\ last.op = "remove"
        /\ last.u \in Instants(last.before)
        /\ Len(last.before) - 1 < minLeaps) =>
            /\ last.res = "panic"
            /\ leaps = last.before

\* C8: registering an instant later than every entry returns nil and
\* appends it; removing that instant right afterwards does not panic and
\* restores the table to its content before the registration.
C8_RegisterThenRemoveRestores ==
    /\ (last.op = "register" /\ Latest(last.before, last.u)) =>
            /\ last.res = "nil"
            /\ leaps = Append(last.before, leap(last.u, last.c))
    /\ (last.op = "remove" /\ last.follows) =>
            /\ last.res = "ok"
            /\ leaps = last.base

\* C8 witness: a removal that came right after the registration of the same
\* instant at the end of the table has acted.
C8_Witness ==
    /\ last.op = "remove"
    /\ last.follows
    /\ Len(last.before) = Len(last.base) + 1
    /\ last.before[Len(last.before)].UnixUTC = last.u
    /\ leaps = last.base

(***************************************************************************)
(* Properties of the lock, under SpecRW.                                   *)
(***************************************************************************)
\* C9: a RegisterLeapSecond or RemoveLeapSecond mutation never overlaps
\* another mutation nor a lookup scan: no writer is inside its critical
\* section together with a reader or another writer, and a reader inside
\* its read section sees a sorted table with no removal half done.
C9_WriterExcludesAll ==
    /\ \A p \in Procs :
          pc[p] \in WriterInside =>
              \A q \in Procs \ {p} : pc[q] \notin (WriterInside \cup ReaderInside)
    /\ (\E p \in Procs : pc[p] \in ReaderInside) =>
          /\ StrictlyAscending(leaps)
          /\ \A q \in Procs : pending[q] = <<>>

\* C9 witness: a writer is in the middle of a removal, the table holds the
\* moved entries and is not sorted, while a reader is blocked in RLock and
\* another writer waits in Lock.
C9_Witness ==
    \E p, q, r \in Procs :
        /\ pc[p] = "store"
        /\ ~StrictlyAscending(leaps)
        /\ pc[q] = "rblocked"
        /\ pc[r] = "lock"

\* C10: lookups do not exclude each other: a reader is blocked only while a
\* writer holds or waits for the lock, and with no such writer a reader at
\* RLock enters its read section whatever the number of readers inside.
C10_ReadersShare ==
    \A p \in Procs :
        /\ pc[p] = "rblocked" => wholder # 0
        /\ (pc[p] = "rlock" /\ wholder = 0) =>
               ENABLED (RLock(p) /\ pc'[p] = "scan")

\* C10 witness: two skewUnix calls are inside their read sections at the
\* same time, and a third caller is entering.
C10_Witness ==
    \E p, q, r \in Procs :
        /\ p # q
        /\ pc[p] = "scan"
        /\ pc[q] = "scan"
        /\ kind[p] = "skewUnix"
        /\ kind[q] = "skewUnix"
        /\ wholder = 0
        /\ readerCount >= 2
        /\ r \notin {p, q}
        /\ pc[r] = "rlock"

(***************************************************************************)
(* The TAI value and the calendar.                                         *)
(*                                                                         *)
(* Go's / truncates toward zero and % takes the sign of the dividend;      *)
(* GoDiv and GoMod are these operators for a positive divisor.             *)
(*                                                                         *)
(* Fractions of a second are counted in nanoseconds here: Nanosecond is    *)
(* the unit, 1e18 attoseconds are NanosPerSecond * Nanosecond, and every   *)
(* fraction drawn below is a whole number of nanoseconds.  /, % by 1e18,   *)
(* +, - and the comparisons with 0 and 1e18 take whole nanoseconds to      *)
(* whole nanoseconds, so they are computed exactly.                        *)
(***************************************************************************)
GoDiv(a, b) == IF a >= 0 THEN a \div b ELSE -((-a) \div b)

GoMod(a, b) == a - b * GoDiv(a, b)

Second == 1

Minute == 60 * Second

Hour == 60 * Minute

Day == 24 * Hour

unixEpochSkew == 4383 * Day

Nanosecond == 1

Microsecond == 1000 * Nanosecond

Millisecond == 1000 * Microsecond

NanosPerSecond == 1000 * 1000 * 1000

\* the literal 1e18 (attoseconds in a second)
E18 == NanosPerSecond * Nanosecond

TAI(sec, asec) == [sec |-> sec, asec |-> asec]

\* normalization that forgets to borrow for a negative fraction
TaiNoBorrow(sec, asec) == TAI(sec + GoDiv(asec, E18), GoMod(asec, E18))

Tai(sec, asec) ==
    LET spareSecs == GoDiv(asec, E18)
        asec1 == GoMod(asec, E18)
        sec1 == sec + spareSecs
    IN  IF asec1 < 0
        THEN TAI(sec1 - Second, asec1 + E18)
        ELSE TAI(sec1, asec1)

\* comparison on the whole seconds alone
BeforeSecOnly(t, o) == t.sec < o.sec

Before(t, o) ==
    IF t.sec < o.sec THEN TRUE
    ELSE IF t.sec = o.sec /\ t.asec < o.asec THEN TRUE
    ELSE FALSE

After(t, o) ==
    IF t.sec > o.sec THEN TRUE
    ELSE IF t.sec = o.sec /\ t.asec > o.asec THEN TRUE
    ELSE FALSE

Eq(t, o) == t.sec = o.sec /\ t.asec = o.asec

\* addition that carries one second at most
AddOneCarry(t, sec, asec) ==
    LET a == t.asec + asec
    IN  IF a >= E18 THEN TAI(t.sec + sec + 1, a - E18)
        ELSE IF a < 0 THEN TAI(t.sec + sec - 1, a + E18)
        ELSE TAI(t.sec + sec, a)

Add(t, sec, asec) ==
    LET asec1 == t.asec + asec
        sec1 == t.sec + GoDiv(asec1, E18) + sec
        asec2 == GoMod(asec1, E18)
    IN  IF asec2 < 0
        THEN TAI(sec1 - Second, asec2 + E18)
        ELSE TAI(sec1, asec2)

AddMilliseconds(t, msec) ==
    Add(t, GoDiv(msec, 1000), GoMod(msec, 1000) * Millisecond)

AddMicroseconds(t, musec) ==
    Add(t, GoDiv(musec, 1000 * 1000), GoMod(musec, 1000 * 1000) * Microsecond)

AddNanoseconds(t, nsec) ==
    Add(t, GoDiv(nsec, NanosPerSecond), GoMod(nsec, NanosPerSecond) * Nanosecond)

AddHMS(t, h, m, s) == TAI(t.sec + h * Hour + m * Minute + s, t.asec)

\* Unix(seconds, nsec): the TAI value of a UNIX time
Unix(tbl, seconds, nsec) ==
    LET skew == skewUnix(tbl, seconds)
    IN  TAI(seconds + unixEpochSkew + skew, nsec * Nanosecond)

\* t.Unix(): the UNIX time of a TAI value, <<secs, nsecs>>
TAIUnix(tbl, t) ==
    LET secs == t.sec - unixEpochSkew
        nsecs == GoDiv(t.asec, Nanosecond)
        skew == skewUnix(tbl, secs)
    IN  <<secs - skew, nsecs>>

(***************************************************************************)
(* Calendar arithmetic (the days are counted from Jan 1, 1958).            *)
(***************************************************************************)
eraYears == 400

eraYearsm1 == eraYears - 1

epochDays == 719468 - 4383

yearDays == 365

eraDays == 146097

eraDaysm1 == eraDays - 1

daysPerNonLeapMonth == <<31, 28, 31, 30, 31, 30, 31, 31, 30, 31, 30, 31>>

daysPerLeapMonth == <<31, 29, 31, 30, 31, 30, 31, 31, 30, 31, 30, 31>>

\* every fourth year, the rule of the Julian calendar
IsLeapYearJulian(year) == GoMod(year, 4) = 0

\* a year below 1 taken as year 1
IsLeapYearClamped(year) ==
    LET y == IF year < 1 THEN 1 ELSE year IN
    IF GoMod(y, 4) = 0
    THEN IF GoMod(y, 100) = 0
         THEN GoMod(y, 400) = 0
         ELSE TRUE
    ELSE FALSE

IsLeapYear(year) ==
    IF GoMod(year, 4) = 0
    THEN IF GoMod(year, 100) = 0
         THEN GoMod(year, 400) = 0
         ELSE TRUE
    ELSE FALSE

\* February of 28 days in every year
DaysInMonthNoLeap(m, y) == daysPerNonLeapMonth[m]

DaysInMonth(m, y) ==
    IF IsLeapYear(y) THEN daysPerLeapMonth[m] ELSE daysPerNonLeapMonth[m]

\* the era of a negative year taken with the truncating division
DaysFromCivilTruncEra(y0, m0, d) ==
    LET y == IF m0 <= 2 THEN y0 - 1 ELSE y0
        era == GoDiv(y, eraYears)
        yoe == y - era * eraYears
        m == IF m0 > 2 THEN m0 - 3 ELSE m0 + 9
        doy == GoDiv(153 * m + 2, 5) + d - 1
        doe == yoe * yearDays + GoDiv(yoe, 4) - GoDiv(yoe, 100) + doy
    IN  era * eraDays + doe - epochDays

DaysFromCivil(y0, m0, d) ==
    LET y == IF m0 <= 2 THEN y0 - 1 ELSE y0
        era == IF y >= 0 THEN GoDiv(y, eraYears)
               ELSE GoDiv(y - eraYearsm1, eraYears)
        yoe == y - era * eraYears
        m == IF m0 > 2 THEN m0 - 3 ELSE m0 + 9
        doy == GoDiv(153 * m + 2, 5) + d - 1
        doe == yoe * yearDays + GoDiv(yoe, 4) - GoDiv(yoe, 100) + doy
    IN  era * eraDays + doe - epochDays

\* the day count taken from 1970-01-01, the epoch of the algorithm's source
CivilFromDaysUnixEpoch(days0) ==
    LET days == days0 + 719468
        era == GoDiv(IF days >= 0 THEN days ELSE days - eraDaysm1, eraDays)
        doe == days - era * eraDays
        yoe == GoDiv(doe - GoDiv(doe, 1460) + GoDiv(doe, 36524)
                         - GoDiv(doe, 146096), 365)
        y == yoe + era * eraYears
        doy == doe - (365 * yoe + GoDiv(yoe, 4) - GoDiv(yoe, 100))
        mp == GoDiv(5 * doy + 2, 153)
        d == doy - GoDiv(153 * mp + 2, 5) + 1
        m == IF mp < 10 THEN mp + 3 ELSE mp - 9
    IN  <<IF m <= 2 THEN y + 1 ELSE y, m, d>>

\* <<y, m, d>>
CivilFromDays(days0) ==
    LET days == days0 + epochDays
        era == GoDiv(IF days >= 0 THEN days ELSE days - eraDaysm1, eraDays)
        doe == days - era * eraDays
        yoe == GoDiv(doe - GoDiv(doe, 1460) + GoDiv(doe, 36524)
                         - GoDiv(doe, 146096), 365)
        y == yoe + era * eraYears
        doy == doe - (365 * yoe + GoDiv(yoe, 4) - GoDiv(yoe, 100))
        mp == GoDiv(5 * doy + 2, 153)
        d == doy - GoDiv(153 * mp + 2, 5) + 1
        m == IF mp < 10 THEN mp + 3 ELSE mp - 9
    IN  <<IF m <= 2 THEN y + 1 ELSE y, m, d>>

DaysFromSecsEpoch(secs) == GoDiv(secs, Day)

SecsEpochFromDays(days) == days * Day

Gregorian(Y, M, D, hr, mn, sc, asec) ==
    [Year |-> Y, Month |-> M, Day |-> D, Hour |-> hr, Min |-> mn, Sec |-> sc,
     Asec |-> asec]

Date(y, m, d) == TAI(SecsEpochFromDays(DaysFromCivil(y, m, d)), 0)

FromGregorian(g) ==
    LET d == DaysFromCivil(g.Year, g.Month, g.Day)
        s == SecsEpochFromDays(d)
    IN  Tai(s, g.Asec)

\* for rem < 0 { rem += Day; D-- }
RECURSIVE remUp(_, _)
remUp(rem, D) == IF rem < 0 THEN remUp(rem + Day, D - 1) ELSE <<rem, D>>

\* for rem >= Day { rem -= Day; D++ }
RECURSIVE remDown(_, _)
remDown(rem, D) == IF rem >= Day THEN remDown(rem - Day, D + 1) ELSE <<rem, D>>

\* the time of day taken from the seconds of the epoch day
AsGregorianNoTime(t) ==
    LET ymd == CivilFromDays(DaysFromSecsEpoch(t.sec))
    IN  Gregorian(ymd[1], ymd[2], ymd[3], 0, 0, 0, t.asec)

AsGregorian(t) ==
    LET d == DaysFromSecsEpoch(t.sec)
        ymd == CivilFromDays(d)
        up == remUp(GoMod(t.sec, Day), ymd[3])
        dn == remDown(up[1], up[2])
        rem == dn[1]
        hr == GoDiv(rem, Hour)
        rem1 == GoMod(rem, Hour)
        mn == GoDiv(rem1, Minute)
        rem2 == GoMod(rem1, Minute)
    IN  Gregorian(ymd[1], ymd[2], dn[2], hr, mn, rem2, t.asec)

(***************************************************************************)
(* Weekdays: 0 is Sunday, 6 is Saturday.                                   *)
(***************************************************************************)
\* the remainder taken by the truncating % alone
WeekdayFromDaysTrunc(days) == GoMod(days + 4, 7)

WeekdayFromDays(days) ==
    IF days >= -4 THEN GoMod(days + 4, 7) ELSE GoMod(days + 5, 7) + 6

WeekdayDifference(d1, d2) ==
    LET d == d1 - d2 IN IF d <= 6 THEN d ELSE d + 7

NextWeekday(wd) == IF wd < 6 THEN wd + 1 ELSE 0

PrevWeekday(wd) == IF wd > 0 THEN wd - 1 ELSE 6

(***************************************************************************)
(* Ordering of Gregorian values.                                           *)
(***************************************************************************)
GregorianBefore(g, o) == Before(FromGregorian(g), FromGregorian(o))

GregorianAfter(g, o) == After(FromGregorian(g), FromGregorian(o))

GregorianEq(g, o) ==
    /\ g.Asec = o.Asec
    /\ g.Year = o.Year
    /\ g.Month = o.Month
    /\ g.Day = o.Day
    /\ g.Hour = o.Hour
    /\ g.Min = o.Min
    /\ g.Sec = o.Sec

(***************************************************************************)
(* Boundary conversions over the table: callers register and remove leap   *)
(* seconds, and a caller converts.  Unix(s, ns).Unix() is two calls: each  *)
(* runs skewUnix under the read lock and releases it at its return, so a   *)
(* registration or a removal by another caller can run between them; held  *)
(* is the TAI value the caller holds meanwhile, with the table the first   *)
(* call saw.  A call of TAI.Unix ends the run (the table calls before it   *)
(* are what makes the table).                                              *)
(***************************************************************************)
TableCall == last.op \in {"none", "register", "remove"}

\* UNIX seconds just before, exactly at and just after every entry, and
\* every instant another caller may register meanwhile
UnixSeconds(tbl) ==
    UNION { {u - 1, u, u + 1} : u \in Instants(tbl) \cup FutureInstants }

NsecInputs == {0, NanosPerSecond - 1}

\* TAI values around the image of every entry
TAIInputs(tbl) ==
    { TAI(u + unixEpochSkew + k, ns * Nanosecond) :
        u \in Instants(tbl), k \in {-1, 0, 1, 60}, ns \in NsecInputs }

\* a table call of another caller: before the conversions, or between the
\* two (until the table differs from the one the first conversion saw)
UnixRegister ==
    /\ TableCall \/ last.op = "Unix"
    /\ held # NoHeld => leaps = held.tbl
    /\ CallRegister

UnixRemove ==
    /\ TableCall \/ last.op = "Unix"
    /\ held # NoHeld => leaps = held.tbl
    /\ CallRemove

\* t := Unix(s, ns)
CallUnix ==
    /\ TableCall
    /\ held = NoHeld
    /\ \E s \in UnixSeconds(leaps) :
         \E ns \in NsecInputs :
            LET t == Unix(leaps, s, ns) IN
            /\ held' = [s |-> s, ns |-> ns, t |-> t, tbl |-> leaps]
            /\ last' = [op |-> "Unix", s |-> s, ns |-> ns, t |-> t,
                        before |-> leaps]
    /\ UNCHANGED <<leaps, pc, kind, wholder, readerCount, pending>>

\* t.Unix() on the held value
CallHeldUnix ==
    /\ TableCall \/ last.op = "Unix"
    /\ held # NoHeld
    /\ last' = [op |-> "Unix.Unix", s |-> held.s, ns |-> held.ns,
                t |-> held.t, back |-> TAIUnix(leaps, held.t),
                first |-> held.tbl, before |-> leaps]
    /\ held' = NoHeld
    /\ UNCHANGED <<leaps, pc, kind, wholder, readerCount, pending>>

\* t.Unix()
CallTAIUnix ==
    /\ TableCall
    /\ held = NoHeld
    /\ \E t \in TAIInputs(leaps) :
            last' = [op |-> "TAI.Unix", t |-> t, out |-> TAIUnix(leaps, t),
                     before |-> leaps]
    /\ UNCHANGED <<leaps, pc, kind, wholder, readerCount, pending, held>>

NextUnix ==
    \/ UnixRegister
    \/ UnixRemove
    \/ CallUnix
    \/ CallHeldUnix
    \/ CallTAIUnix

SpecUnix == Init /\ [][NextUnix]_vars

\* C12: with the table unchanged between the two calls, for every UNIX
\* instant (s, ns) with 0 <= ns < 1e9, just before, at and just after each
\* leap entry included, Unix(s, ns).Unix() = (s, ns).
C12_UnixRoundTrip ==
    (last.op = "Unix.Unix" /\ last.first = last.before) =>
        last.back = <<last.s, last.ns>>

\* C13: the correction applied is the table's correction at the UTC
\* instant: for every TAI value t, with u the whole seconds of t.Unix(),
\* t.sec - unixEpochSkew - u = skewUnix(u); equivalently Unix(t.Unix()) has
\* the whole seconds of t.
C13_CorrectionAtUTC ==
    last.op = "TAI.Unix" =>
        LET u == last.out[1] IN
        /\ last.t.sec - unixEpochSkew - u = skewUnix(last.before, u)
        /\ Unix(last.before, u, last.out[2]).sec = last.t.sec

(***************************************************************************)
(* The operations on TAI values.  The initial state holds the call and its *)
(* arguments (last.op = "call"); the action of the function applies it and *)
(* leaves the call and the result in last.                                 *)
(***************************************************************************)
\* whole seconds run over -MaxSec..MaxSec
MaxSec == 2

SecInputs == (-MaxSec)..MaxSec

\* normalized fractions
NormalFracs == {0, 1, E18 \div 2, E18 - 1}

NormalTAIs == { TAI(s, a) : s \in SecInputs, a \in NormalFracs }

\* raw fractions: negative, and larger in magnitude than one second
FracInputs ==
    { -(2 * E18 - 1), -(E18 + 1), -E18, -(E18 - 1), -1, 0, 1,
      E18 - 1, E18, E18 + 1, 2 * E18 - 1 }

\* fractions added to a normalized value; the largest makes the sum with
\* E18 - 1 the largest integer the checker holds
DeltaFracs ==
    { -(2 * E18 - 1), -(E18 + 1), -E18, -1, 0, 1, E18 - 1, E18, E18 + 1,
      2147483647 - (E18 - 1) }

MilliInputs == {-1001, -1000, -1, 0, 1, 999, 1000, 2500}

MicroInputs == {-1000001, -1000000, -1, 0, 1, 999999, 1000000, 2500000}

NanoInputs ==
    { -(NanosPerSecond + 1), -NanosPerSecond, -1, 0, 1, NanosPerSecond - 1,
      NanosPerSecond, NanosPerSecond + 1 }

UnixNsecInputs ==
    { -1, 0, 1, NanosPerSecond - 1, NanosPerSecond, NanosPerSecond + 1 }

UnixSecInputs == { 0, SeedLeaps[2].UnixUTC + 1, LastSeed.UnixUTC + 1 } \cup SecInputs

\* values compared: fractions in and out of [0, 1e18)
CmpTAIs == { TAI(s, a) : s \in {-1, 0, 1}, a \in {-1, 0, 1, E18 - 1, E18} }

DateInputs ==
    { <<1957, 12, 31>>, <<1958, 1, 1>>, <<1970, 1, 1>>, <<2000, 2, 29>> }

HMSInputs == { <<0, 0, 0>>, <<0, 0, 1>>, <<12, 30, 30>>, <<23, 59, 59>> }

TimeCalls ==
    { [op |-> "call", fn |-> "Tai", w |-> w, f |-> f] :
        w \in SecInputs, f \in FracInputs }
    \cup { [op |-> "call", fn |-> "Add", t |-> t, sec |-> s, asec |-> a] :
        t \in NormalTAIs, s \in SecInputs, a \in DeltaFracs }
    \cup { [op |-> "call", fn |-> "AddMilliseconds", t |-> t, n |-> n] :
        t \in NormalTAIs, n \in MilliInputs }
    \cup { [op |-> "call", fn |-> "AddMicroseconds", t |-> t, n |-> n] :
        t \in NormalTAIs, n \in MicroInputs }
    \cup { [op |-> "call", fn |-> "AddNanoseconds", t |-> t, n |-> n] :
        t \in NormalTAIs, n \in NanoInputs }
    \cup { [op |-> "call", fn |-> "AddHMS", t |-> t, hms |-> x] :
        t \in NormalTAIs, x \in HMSInputs }
    \cup { [op |-> "call", fn |-> "Unix", s |-> s, ns |-> ns] :
        s \in UnixSecInputs, ns \in UnixNsecInputs }
    \cup { [op |-> "call", fn |-> "Date", ymd |-> x] : x \in DateInputs }
    \cup { [op |-> "call", fn |-> "FromGregorian", ymd |-> x, asec |-> a] :
        x \in DateInputs, a \in NormalFracs }
    \cup { [op |-> "call", fn |-> "Compare", t |-> a, o |-> b] :
        a \in CmpTAIs, b \in CmpTAIs }

InitTime ==
    /\ leaps = SeedLeaps
    /\ last \in TimeCalls
    /\ pc = [p \in Procs |-> "idle"]
    /\ kind = [p \in Procs |-> "none"]
    /\ wholder = 0
    /\ readerCount = 0
    /\ pending = [p \in Procs |-> <<>>]
    /\ held = NoHeld

Called(fn) == last.op = "call" /\ last.fn = fn

Return(out) ==
    /\ last' = [op |-> last.fn, in |-> last, out |-> out]
    /\ UNCHANGED <<leaps, pc, kind, wholder, readerCount, pending, held>>

DoTai == Called("Tai") /\ Return(Tai(last.w, last.f))

DoAdd == Called("Add") /\ Return(Add(last.t, last.sec, last.asec))

DoAddMilliseconds ==
    Called("AddMilliseconds") /\ Return(AddMilliseconds(last.t, last.n))

DoAddMicroseconds ==
    Called("AddMicroseconds") /\ Return(AddMicroseconds(last.t, last.n))

DoAddNanoseconds ==
    Called("AddNanoseconds") /\ Return(AddNanoseconds(last.t, last.n))

DoAddHMS ==
    Called("AddHMS")
    /\ Return(AddHMS(last.t, last.hms[1], last.hms[2], last.hms[3]))

DoUnix == Called("Unix") /\ Return(Unix(leaps, last.s, last.ns))

DoDate == Called("Date") /\ Return(Date(last.ymd[1], last.ymd[2], last.ymd[3]))

DoFromGregorian ==
    Called("FromGregorian")
    /\ Return(FromGregorian(Gregorian(last.ymd[1], last.ymd[2], last.ymd[3],
                                      0, 0, 0, last.asec)))

DoCompare ==
    Called("Compare")
    /\ Return([before |-> Before(last.t, last.o), eq |-> Eq(last.t, last.o),
               after |-> After(last.t, last.o),
               rafter |-> After(last.o, last.t)])

NextTime ==
    \/ DoTai
    \/ DoAdd
    \/ DoAddMilliseconds
    \/ DoAddMicroseconds
    \/ DoAddNanoseconds
    \/ DoAddHMS
    \/ DoUnix
    \/ DoDate
    \/ DoFromGregorian
    \/ DoCompare

SpecTime == InitTime /\ [][NextTime]_vars

Normalized(t) == 0 <= t.asec /\ t.asec < E18

TAIReturning ==
    { "Tai", "Add", "AddMilliseconds", "AddMicroseconds", "AddNanoseconds",
      "AddHMS", "Unix", "Date", "FromGregorian" }

\* C14: every TAI value returned by a public operation applied to
\* normalized values has 0 <= asec < 1e18; Unix(seconds, nsec) normalizes
\* its result for every nsec, nsec < 0 and nsec >= 1e9 included.
C14_ResultsNormalized ==
    last.op \in TAIReturning => Normalized(last.out)

\* C15: r = Tai(w, f) has 0 <= r.asec < 1e18 and the total of (w, f):
\* r.sec * 1e18 + r.asec = w * 1e18 + f; and Tai(r.sec, r.asec) = r.
C15_TaiNormalizes ==
    last.op = "Tai" =>
        LET r == last.out IN
        /\ Normalized(r)
        /\ (r.sec - last.in.w) * E18 + r.asec = last.in.f
        /\ Tai(r.sec, r.asec) = r

\* C15 witness: a negative fraction larger in magnitude than one second
\* has been normalized, two seconds borrowed.
C15_Witness ==
    /\ last.op = "Tai"
    /\ last.in.f < -E18
    /\ last.out.sec = last.in.w - 2
    /\ last.out.asec > 0

\* C16: for a normalized t, t.Add(sec, asec) = Tai(t.sec + sec,
\* t.asec + asec): the total grows by sec * 1e18 + asec, also when the
\* fraction sum spans several seconds, and the result is normalized.
C16_AddIsTaiOfSums ==
    last.op = "Add" =>
        LET r == last.out
            t == last.in.t
        IN
        /\ r = Tai(t.sec + last.in.sec, t.asec + last.in.asec)
        /\ Normalized(r)
        /\ (r.sec - t.sec - last.in.sec) * E18 + r.asec = t.asec + last.in.asec

\* C16 witness: the fraction sum spanned two whole seconds.
C16_Witness ==
    /\ last.op = "Add"
    /\ last.in.t.asec + last.in.asec >= 2 * E18
    /\ last.out.sec = last.in.t.sec + last.in.sec + 2

Total(t) == t.sec * E18 + t.asec

\* C17: comparison is lexicographic on (sec, asec): exactly one of
\* a.Before(b), a.Eq(b), a.After(b) holds, a.Before(b) = b.After(a), and
\* for normalized values a.Before(b) iff the total of a is the smaller.
C17_CompareLexicographic ==
    last.op = "Compare" =>
        LET a == last.in.t
            b == last.in.o
            r == last.out
        IN
        /\ Cardinality({ k \in {"before", "eq", "after"} : r[k] }) = 1
        /\ r.before = r.rafter
        /\ r.before = (a.sec < b.sec \/ (a.sec = b.sec /\ a.asec < b.asec))
        /\ r.after = (a.sec > b.sec \/ (a.sec = b.sec /\ a.asec > b.asec))
        /\ (Normalized(a) /\ Normalized(b)) =>
               /\ r.before = (Total(a) < Total(b))
               /\ r.after = (Total(a) > Total(b))
               /\ r.eq = (Total(a) = Total(b))

\* C17 witness: two values of the same second were told apart by the
\* fraction.
C17_Witness ==
    /\ last.op = "Compare"
    /\ last.in.t.sec = last.in.o.sec
    /\ last.in.t.asec < last.in.o.asec
    /\ last.out.before
    /\ ~last.out.after

(***************************************************************************)
(* The calendar conversions.  As above the initial state holds the call.   *)
(***************************************************************************)
\* years taken on both sides of every anchor year
YearSpan == 2

\* proleptic range of the tests, its ends, the eras around year zero, the
\* 1582 calendar switch, century years and the epochs
WideAnchors == {-4716 + YearSpan, -400, 0, 400, 1582, 1900, 1958, 1970, 2000,
                10000 - YearSpan}

\* years whose seconds from the epoch the checker holds
NearAnchors == {1900, 1958, 1970, 2000, 2020}

Around(anchors) == { y + k : y \in anchors, k \in (-YearSpan)..YearSpan }

CivilDates(years) ==
    { x \in years \X (1..12) \X (1..31) : x[3] <= DaysInMonth(x[2], x[1]) }

CalHMS ==
    { <<0, 0, 0>>, <<0, 0, 1>>, <<0, 1, 0>>, <<1, 0, 0>>, <<12, 30, 30>>,
      <<23, 59, 59>> }

CalDays == { d + k : d \in {0, 4383}, k \in (-YearSpan)..YearSpan }

CalTAIs ==
    { TAI(s + k, a) : s \in {0, unixEpochSkew}, k \in {0, 1, Day - 1},
                      a \in NormalFracs }

CalCalls(wide, near) ==
    { [op |-> "call", fn |-> "RoundTrip", ymd |-> x] :
        x \in wide }
    \cup { [op |-> "call", fn |-> "CivilFromDays", days |-> d] : d \in CalDays }
    \cup { [op |-> "call", fn |-> "AsGregorian", t |-> t] : t \in CalTAIs }
    \cup { [op |-> "call", fn |-> "Date", ymd |-> x] :
        x \in near }
    \cup { [op |-> "call", fn |-> "DateAddHMS", ymd |-> x, hms |-> h] :
        x \in near, h \in CalHMS }

InitCal ==
    /\ leaps = SeedLeaps
    /\ last \in CalCalls(CivilDates(Around(WideAnchors)),
                       CivilDates(Around(NearAnchors)))
    /\ pc = [p \in Procs |-> "idle"]
    /\ kind = [p \in Procs |-> "none"]
    /\ wholder = 0
    /\ readerCount = 0
    /\ pending = [p \in Procs |-> <<>>]
    /\ held = NoHeld

\* CivilFromDays(DaysFromCivil(y, m, d))
CalRoundTrip ==
    /\ Called("RoundTrip")
    /\ LET days == DaysFromCivil(last.ymd[1], last.ymd[2], last.ymd[3])
       IN  Return([days |-> days, back |-> CivilFromDays(days)])

CalCivilFromDays == Called("CivilFromDays") /\ Return(CivilFromDays(last.days))

CalAsGregorian == Called("AsGregorian") /\ Return(AsGregorian(last.t))

\* Date(y, m, d).AsGregorian()
CalDate ==
    /\ Called("Date")
    /\ Return(AsGregorian(Date(last.ymd[1], last.ymd[2], last.ymd[3])))

\* Date(y, m, d).AddHMS(h, mi, s).AsGregorian()
CalDateAddHMS ==
    /\ Called("DateAddHMS")
    /\ Return(AsGregorian(AddHMS(Date(last.ymd[1], last.ymd[2], last.ymd[3]),
                                 last.hms[1], last.hms[2], last.hms[3])))

NextCal ==
    \/ CalRoundTrip
    \/ CalCivilFromDays
    \/ CalAsGregorian
    \/ CalDate
    \/ CalDateAddHMS

SpecCal == InitCal /\ [][NextCal]_vars

\* C18: for every valid civil date CivilFromDays(DaysFromCivil(y, m, d)) is
\* (y, m, d), and Date(y, m, d).AsGregorian() has Year, Month, Day equal to
\* y, m, d: month ends, leap days, century years, 1582, year zero, negative
\* years and both sides of the 1958 epoch included.
C18_CivilRoundTrip ==
    /\ last.op = "RoundTrip" => last.out.back = last.in.ymd
    /\ last.op = "Date" =>
           <<last.out.Year, last.out.Month, last.out.Day>> = last.in.ymd

\* C18 witness: the leap day of a negative century year went through
\* DaysFromCivil, to a day before the epoch, and back.
C18_Witness ==
    /\ last.op = "RoundTrip"
    /\ last.in.ymd = <<-400, 2, 29>>
    /\ last.out.days < 0
    /\ last.out.back = <<-400, 2, 29>>

\* C19: the epoch is anchored: DaysFromCivil(1958, 1, 1) = 0,
\* CivilFromDays(0) = (1958, 1, 1), the zero TAI value decomposes to
\* 1958-01-01 00:00:00 with zero attoseconds, and the value 4383 days
\* (unixEpochSkew) later decomposes to 1970-01-01 00:00:00.
C19_EpochAnchored ==
    /\ (last.op = "RoundTrip" /\ last.in.ymd = <<1958, 1, 1>>) =>
           last.out.days = 0
    /\ (last.op = "RoundTrip" /\ last.in.ymd = <<1970, 1, 1>>) =>
           last.out.days = 4383 /\ last.out.days * Day = unixEpochSkew
    /\ (last.op = "CivilFromDays" /\ last.in.days = 0) =>
           last.out = <<1958, 1, 1>>
    /\ (last.op = "AsGregorian" /\ last.in.t = TAI(0, 0)) =>
           last.out = Gregorian(1958, 1, 1, 0, 0, 0, 0)
    /\ (last.op = "AsGregorian" /\ last.in.t = TAI(unixEpochSkew, 0)) =>
           last.out = Gregorian(1970, 1, 1, 0, 0, 0, 0)

\* C19 witness: the value 4383 days after the epoch has been decomposed.
C19_Witness ==
    /\ last.op = "AsGregorian"
    /\ last.in.t = TAI(4383 * Day, 0)
    /\ last.out.Year = 1970
    /\ last.out.Hour = 0

\* C20: for every valid civil date, before or after the epoch, and every
\* time of day, Date(y, m, d).AddHMS(h, mi, s).AsGregorian() is exactly
\* (y, m, d, h, mi, s, 0), and its Day is within 1..DaysInMonth(Month, Year).
C20_DateTimeRoundTrip ==
    last.op = "DateAddHMS" =>
        /\ last.out = Gregorian(last.in.ymd[1], last.in.ymd[2], last.in.ymd[3],
                                last.in.hms[1], last.in.hms[2], last.in.hms[3],
                                0)
        /\ last.out.Day \in 1..DaysInMonth(last.out.Month, last.out.Year)

(***************************************************************************)
(* Progress of the calls on the table.  The scheduler runs every goroutine *)
(* that can take a step (weak fairness of the steps that nothing disables),*)
(* and sync.Mutex hands the lock to a waiter that has waited long enough   *)
(* (starvation mode), so a writer waiting in Lock gets the lock although   *)
(* other writers take it meanwhile (strong fairness of Lock).  Calls need  *)
(* not start.                                                              *)
(***************************************************************************)
FairRW ==
    \A p \in Procs :
        /\ WF_vars(RLock(p))
        /\ WF_vars(Scan(p))
        /\ WF_vars(RUnlock(p))
        /\ SF_vars(Lock(p))
        /\ WF_vars(LockEnter(p))
        /\ WF_vars(RegisterBody(p))
        /\ WF_vars(RemoveBody(p))
        /\ WF_vars(RemoveStore(p))
        /\ WF_vars(Unlock(p))

SpecRWFair == Init /\ [][NextRW]_vars /\ FairRW

\* C11: under fair scheduling every started skewUnix, RegisterLeapSecond
\* and RemoveLeapSecond call eventually returns with the lock released
\* (error returns and panics included), and a held lock is eventually free
\* again, so a later call can acquire it.
C11_NoCallBlocks ==
    /\ \A p \in Procs : (pc[p] # "idle") ~> (pc[p] = "idle" /\ wholder # p)
    /\ (wholder # 0) ~> (wholder = 0)

\* C11 witness: a writer is inside its critical section while another
\* writer waits in Lock and a reader is blocked in RLock.
C11_Witness ==
    \E p, q, r \in Procs :
        /\ pc[p] = "unlock" /\ kind[p] = "register" /\ wholder = p
        /\ pc[q] = "lock"
        /\ pc[r] = "rblocked"

(***************************************************************************)
(* Time of day, leap years, weekdays and the ordering of Gregorian values. *)
(* As above the initial state holds the call.                              *)
(***************************************************************************)
\* day counts run over -DaySpan..DaySpan
DaySpan == 40

\* seconds on both sides of the epoch, to the ends of the integers held
GregSecs ==
    { -2147483647, -2000000000, -(Day + 1), -Day, -(Day - 1), -Hour, -1, 0, 1,
      Hour, Day - 1, Day, Day + 1, unixEpochSkew, unixEpochSkew + 12 * Hour,
      2000000000, 2147483647 }

GregTAIs == { TAI(s, a) : s \in GregSecs, a \in NormalFracs }

\* the values whose day, taken back to seconds, the integers hold
RecomposeTAIs ==
    { t \in GregTAIs : -2000000000 <= t.sec /\ t.sec <= 2000000000 }

GregDates ==
    { <<1957, 12, 31>>, <<1958, 1, 1>>, <<1970, 1, 1>>, <<2000, 2, 29>> }

\* canonical Gregorian values
GregInputs ==
    { Gregorian(x[1], x[2], x[3], h[1], h[2], h[3], a) :
        x \in GregDates, h \in {<<0, 0, 0>>, <<0, 0, 1>>, <<12, 30, 30>>},
        a \in {0, 1} }

\* the years of the tests
LeapYearInputs == (-4716)..10000

GregCalls(wide) ==
    { [op |-> "call", fn |-> "AsGregorian", t |-> t] : t \in GregTAIs }
    \cup { [op |-> "call", fn |-> "Recompose", t |-> t] : t \in RecomposeTAIs }
    \cup { [op |-> "call", fn |-> "Redecompose", g |-> g] : g \in GregInputs }
    \cup { [op |-> "call", fn |-> "IsLeapYear", year |-> y] :
        y \in LeapYearInputs }
    \cup { [op |-> "call", fn |-> "DaysInMonth", m |-> m, y |-> y] :
        m \in 1..12, y \in Around(WideAnchors) }
    \cup { [op |-> "call", fn |-> "WeekdayFromDays", days |-> d] :
        d \in (-DaySpan)..DaySpan }
    \cup { [op |-> "call", fn |-> "Weekday", ymd |-> x] :
        x \in wide }
    \cup { [op |-> "call", fn |-> "WeekdayDifference", d1 |-> a, d2 |-> b] :
        a \in 0..6, b \in 0..6 }
    \cup { [op |-> "call", fn |-> "NextWeekday", wd |-> w] : w \in 0..6 }
    \cup { [op |-> "call", fn |-> "PrevWeekday", wd |-> w] : w \in 0..6 }
    \cup { [op |-> "call", fn |-> "DaysFromCivil", ymd |-> x] :
        x \in wide }
    \cup { [op |-> "call", fn |-> "GregorianCompare", g |-> g, o |-> o] :
        g \in GregInputs, o \in GregInputs }

InitGreg ==
    /\ leaps = SeedLeaps
    /\ last \in GregCalls(CivilDates(Around(WideAnchors)))
    /\ pc = [p \in Procs |-> "idle"]
    /\ kind = [p \in Procs |-> "none"]
    /\ wholder = 0
    /\ readerCount = 0
    /\ pending = [p \in Procs |-> <<>>]
    /\ held = NoHeld

GregAsGregorian == Called("AsGregorian") /\ Return(AsGregorian(last.t))

\* FromGregorian(t.AsGregorian())
GregRecompose ==
    Called("Recompose") /\ Return(FromGregorian(AsGregorian(last.t)))

\* FromGregorian(g).AsGregorian()
GregRedecompose ==
    Called("Redecompose") /\ Return(AsGregorian(FromGregorian(last.g)))

GregIsLeapYear == Called("IsLeapYear") /\ Return(IsLeapYear(last.year))

GregDaysInMonth == Called("DaysInMonth") /\ Return(DaysInMonth(last.m, last.y))

GregWeekdayFromDays ==
    Called("WeekdayFromDays") /\ Return(WeekdayFromDays(last.days))

\* WeekdayFromDays(DaysFromCivil(y, m, d))
GregWeekday ==
    /\ Called("Weekday")
    /\ Return(WeekdayFromDays(DaysFromCivil(last.ymd[1], last.ymd[2],
                                            last.ymd[3])))

GregWeekdayDifference ==
    Called("WeekdayDifference") /\ Return(WeekdayDifference(last.d1, last.d2))

GregNextWeekday == Called("NextWeekday") /\ Return(NextWeekday(last.wd))

GregPrevWeekday == Called("PrevWeekday") /\ Return(PrevWeekday(last.wd))

GregDaysFromCivil ==
    /\ Called("DaysFromCivil")
    /\ Return(DaysFromCivil(last.ymd[1], last.ymd[2], last.ymd[3]))

GregCompare ==
    /\ Called("GregorianCompare")
    /\ Return([before |-> GregorianBefore(last.g, last.o),
               eq |-> GregorianEq(last.g, last.o),
               after |-> GregorianAfter(last.g, last.o)])

NextGreg ==
    \/ GregAsGregorian
    \/ GregRecompose
    \/ GregRedecompose
    \/ GregIsLeapYear
    \/ GregDaysInMonth
    \/ GregWeekdayFromDays
    \/ GregWeekday
    \/ GregWeekdayDifference
    \/ GregNextWeekday
    \/ GregPrevWeekday
    \/ GregDaysFromCivil
    \/ GregCompare

SpecGreg == InitGreg /\ [][NextGreg]_vars

\* C21: for every TAI value, before or after the epoch, AsGregorian returns
\* Hour in 0..23, Min in 0..59, Sec in 0..59 with Hour*3600 + Min*60 + Sec
\* the floor-modulo of sec by 86400, and with the remainder in [0, 86400)
\* the day-remainder correction changes nothing.
C21_TimeOfDayCanonical ==
    last.op = "AsGregorian" =>
        LET g == last.out
            r == g.Hour * Hour + g.Min * Minute + g.Sec
        IN
        /\ g.Hour \in 0..23
        /\ g.Min \in 0..59
        /\ g.Sec \in 0..59
        /\ r = last.in.t.sec % Day
        /\ remUp(r, g.Day) = <<r, g.Day>>
        /\ remDown(r, g.Day) = <<r, g.Day>>

\* C21 witness: the second before the epoch decomposed to 23:59:59.
C21_Witness ==
    /\ last.op = "AsGregorian"
    /\ last.in.t.sec = -1
    /\ last.out.Hour = 23
    /\ last.out.Min = 59
    /\ last.out.Sec = 59

\* C22: for every normalized TAI t, FromGregorian(t.AsGregorian()) = t, and
\* for every canonical Gregorian g, FromGregorian(g).AsGregorian() = g.
C22_RecomposeLosesNothing ==
    /\ last.op = "Recompose" => last.out = last.in.t
    /\ last.op = "Redecompose" => last.out = last.in.g

LeapRule(year) == year % 4 = 0 /\ (year % 100 # 0 \/ year % 400 = 0)

\* C23: IsLeapYear(year) is true iff year is divisible by 4 and (not
\* divisible by 100 or divisible by 400), zero and negative years included,
\* and DaysInMonth(2, year) is 29 for exactly those years, 28 otherwise.
C23_LeapYearRule ==
    /\ last.op = "IsLeapYear" => last.out = LeapRule(last.in.year)
    /\ (last.op = "DaysInMonth" /\ last.in.m = 2) =>
           last.out = IF LeapRule(last.in.y) THEN 29 ELSE 28

\* C23 witness: a negative century year divisible by 400 was found leap.
C23_Witness ==
    /\ last.op = "IsLeapYear"
    /\ last.in.year = -400
    /\ last.out = TRUE

\* C24 (as claimed): IsLeapYear fails for every year < 1: it panics and
\* returns no boolean.
C24_PanicsBelowYearOne ==
    (last.op = "IsLeapYear" /\ last.in.year < 1) => last.out \notin BOOLEAN

\* C24 (amended): IsLeapYear does not fail for a year < 1: for year 0 and
\* every negative year it returns a boolean, by the divisibility rule
\* applied to the year itself (the year is neither rejected nor clamped).
C24_ReturnsBelowYearOne ==
    (last.op = "IsLeapYear" /\ last.in.year < 1) =>
        /\ last.out \in BOOLEAN
        /\ last.out = LeapRule(last.in.year)

\* C24 witness: year 0 was accepted, and found leap.
C24_Witness ==
    /\ last.op = "IsLeapYear"
    /\ last.in.year = 0
    /\ last.out = TRUE

\* C25: for every day count d, negative included, WeekdayFromDays(d) is in
\* 0..6, WeekdayFromDays(d + 1) = NextWeekday(WeekdayFromDays(d)) and
\* WeekdayFromDays(d + 7) = WeekdayFromDays(d), around d = -4 and at d = 0.
C25_WeekdayAdvances ==
    last.op = "WeekdayFromDays" =>
        /\ last.out \in 0..6
        /\ WeekdayFromDays(last.in.days + 1) = NextWeekday(last.out)
        /\ WeekdayFromDays(last.in.days + 7) = last.out

\* C25 witness: the first day count of the other branch wrapped to 6.
C25_Witness ==
    /\ last.op = "WeekdayFromDays"
    /\ last.in.days = -5
    /\ last.out = 6
    /\ WeekdayFromDays(-4) = 0

\* C26: WeekdayFromDays(DaysFromCivil(y, m, d)) is the weekday of the date
\* with 0 = Sunday: 4 for 1970-01-01, 3 for 1958-01-01 (day 0), 6 for
\* 2000-01-01, and so the day count plus 3, modulo 7, for every date.
C26_TrueWeekday ==
    last.op = "Weekday" =>
        /\ last.in.ymd = <<1970, 1, 1>> => last.out = 4
        /\ last.in.ymd = <<1958, 1, 1>> => last.out = 3
        /\ last.in.ymd = <<2000, 1, 1>> => last.out = 6
        /\ last.out =
             (DaysFromCivil(last.in.ymd[1], last.in.ymd[2], last.in.ymd[3]) + 3)
             % 7

\* C27: in every reachable state of the table the CumulativeSkew values are
\* non-decreasing in table order.
NonDecreasing(tbl) ==
    \A i \in 1..(Len(tbl) - 1) :
        tbl[i].CumulativeSkew <= tbl[i + 1].CumulativeSkew

\* C27 (as claimed): in every reachable state of the table the
\* CumulativeSkew values are non-decreasing in table order.
C27_SkewsNonDecreasing == NonDecreasing(leaps)

\* C27 (amended): the seeded table is non-decreasing in CumulativeSkew and
\* RemoveLeapSecond keeps a non-decreasing table so; RegisterLeapSecond does
\* not check the skew: after a registration of a non-decreasing table the
\* table is non-decreasing iff nothing was inserted or the registered skew
\* is not below the skew of the last entry, after which it was inserted.
C27_SkewsAsRegistered ==
    /\ last.op = "none" => NonDecreasing(leaps)
    /\ (last.op = "remove" /\ NonDecreasing(last.before)) =>
           NonDecreasing(leaps)
    /\ (last.op = "register" /\ NonDecreasing(last.before)) =>
           (NonDecreasing(leaps) <=>
               \/ last.res # "nil"
               \/ last.c >= last.before[Len(last.before)].CumulativeSkew)

\* C27 witness: a later entry with a larger skew has been registered.
C27_Witness ==
    /\ last.op = "register"
    /\ last.res = "nil"
    /\ NonDecreasing(last.before)
    /\ last.c > last.before[Len(last.before)].CumulativeSkew
    /\ Len(leaps) = Len(last.before) + 1
    /\ NonDecreasing(leaps)

\* the moment a canonical Gregorian value denotes: seconds, attoseconds
Moment(g) ==
    << DaysFromCivil(g.Year, g.Month, g.Day) * Day + g.Hour * Hour
         + g.Min * Minute + g.Sec,
       g.Asec >>

Earliest(a, b) == a[1] < b[1] \/ (a[1] = b[1] /\ a[2] < b[2])

\* C28: for canonical Gregorian values g.Before(o) iff g is an earlier
\* moment than o, g.After(o) iff later, also on the same calendar day, and
\* exactly one of g.Before(o), g.Eq(o), g.After(o) holds.
C28_GregorianOrdering ==
    last.op = "GregorianCompare" =>
        /\ last.out.before = Earliest(Moment(last.in.g), Moment(last.in.o))
        /\ last.out.after = Earliest(Moment(last.in.o), Moment(last.in.g))
        /\ Cardinality({ k \in {"before", "eq", "after"} : last.out[k] }) = 1

RECURSIVE NextTimes(_, _)
NextTimes(wd, n) == IF n <= 0 THEN wd ELSE NextTimes(NextWeekday(wd), n - 1)

\* C29: for d1, d2 in 0..6 WeekdayDifference(d1, d2) is in 0..6, congruent
\* to d1 - d2 modulo 7, and NextWeekday applied that many times to d2 is d1.
C29_WeekdayDifference ==
    last.op = "WeekdayDifference" =>
        /\ last.out \in 0..6
        /\ (last.out - (last.in.d1 - last.in.d2)) % 7 = 0
        /\ NextTimes(last.in.d2, last.out) = last.in.d1

\* the day after a valid date, by DaysInMonth
DayAfter(y, m, d) ==
    IF d < DaysInMonth(m, y) THEN <<y, m, d + 1>>
    ELSE IF m < 12 THEN <<y, m + 1, 1>>
    ELSE <<y + 1, 1, 1>>

\* C30: day counts are contiguous and agree with DaysInMonth: the day count
\* of the day after a valid date (the next day of the month, day 1 of the
\* following month after day DaysInMonth(m, y), January of y + 1 after
\* December) is one more than the date's, negative years included.
C30_DayCountsContiguous ==
    last.op = "DaysFromCivil" =>
        LET n == DayAfter(last.in.ymd[1], last.in.ymd[2], last.in.ymd[3])
        IN  DaysFromCivil(n[1], n[2], n[3]) = last.out + 1

\* C30 witness: the last day of a negative year, one day before year 0.
C30_Witness ==
    /\ last.op = "DaysFromCivil"
    /\ last.in.ymd = <<-1, 12, 31>>
    /\ DaysInMonth(12, -1) = 31
    /\ last.out + 1 = DaysFromCivil(0, 1, 1)

====
